---- MODULE Spec2Model ----
(***************************************************************************)
(* Model of AdvancePandas.save and AdvancePandas._save_to_file             *)
(* (src/advance_pandas.py): destination resolution, the temp-file write,   *)
(* the optional format transplant, the wait for the target, the move onto  *)
(* the target, the optional backup copy and auto-open, and the SIGINT      *)
(* handler the call installs and restores.                                 *)
(***************************************************************************)
EXTENDS Integers, Sequences, FiniteSets, TLC

\* ---------------------------------------------------------------- bounds
\* number of availability polls wait_for_file_availability makes
MaxAttempts == 2
\* number of SIGINT deliveries during one call
MaxInterrupts == 1

\* ----------------------------------------------------------------- paths
\* A path is its stem and its suffix (pathlib's Path.stem / Path.suffix).
MkPath(stem, ext) == [stem |-> stem, ext |-> ext]
\* Python's None and the empty string a cancelled dialog returns
None == MkPath("None", "")
Empty == MkPath("", "")
DataCsv == MkPath("data", ".csv")
DataXlsx == MkPath("data", ".xlsx")
DataTxt == MkPath("data", ".txt")
BookXlsx == MkPath("book", ".xlsx")

\* truth value of a path argument: None and "" are falsy
Falsy(p) == p \in {None, Empty}

\* file_path.with_name(f"{file_path.stem} - Backup{file_path.suffix}")
BackupPath(p) == MkPath(p.stem \o " - Backup", p.ext)

\* valid_extensions = ['.csv', '.xlsx']
ValidExtensions == {".csv", ".xlsx"}
\* the suffixes the reference file may have for the transplant
SpreadsheetExtensions == {".xlsx", ".xls"}

\* the values the inputs are drawn from
ArgPaths == {None, DataCsv, DataTxt}
DestPaths == {None, DataXlsx}
SourcePaths == {None, BookXlsx}
DialogAnswers == {Empty, DataCsv}
Targets == {DataCsv, DataXlsx, DataTxt, BookXlsx}
Files == Targets \cup {BackupPath(p) : p \in Targets}
\* the file the dataset was read from (it may have been removed since)
SourceFiles == {BookXlsx}
\* the data files, the backup files and the source file: each group is there or
\* not; the main files that are there are held open or not, and so the backups
DataFiles == Targets \ SourceFiles
BackupFiles == {BackupPath(p) : p \in Targets}

\* -------------------------------------------------------------- contents
\* A file's content: whose data it holds, its serialization format, whether
\* it is complete, and where its column formatting comes from.
Absent == [data |-> "absent", fmt |-> "none", whole |-> TRUE, style |-> "none"]
FormatOf(ext) == IF ext = ".csv" THEN "csv" ELSE IF ext \in {".xlsx", ".xls"} THEN "xlsx" ELSE "other"
\* what a file on disk holds before the save
Old(p) == [data |-> "old:" \o p.stem, fmt |-> FormatOf(p.ext), whole |-> TRUE, style |-> "own"]
\* to_csv / to_excel of the dataset
Serialized(fmt) == [data |-> "dataset", fmt |-> fmt, whole |-> TRUE, style |-> "plain"]
\* a file opened for writing and not yet completely written
Torn(c) == [c EXCEPT !.whole = FALSE]
Exists(c) == c # Absent

\* ------------------------------------------------------------- handlers
DefaultIntHandler == "default_int_handler"
IgnoreKeyboardInterrupt == "ignore_keyboard_interrupt"
CustomHandler == "custom_handler"
Handlers0 == {DefaultIntHandler, CustomHandler}

VARIABLES
  call,        \* the arguments of save: file_path, async_mode, retain_format, auto_open, create_backup
  self,        \* the dataset's metadata: source_file, destination_file
  file_path,   \* the resolved path (None until resolved)
  answers,     \* what the user answered to the prompts: yesno, saveas
  prompts,     \* the prompts shown, in order
  caller,      \* the caller of save: "calling", "returned", "raised"
  workers,     \* number of worker processes started
  pc,          \* position of the process running _save_to_file
  err,         \* the exception raised ("none" if none)
  handler,     \* SIGINT handler of each process
  handler0,    \* SIGINT handler of the caller before the call
  fs,          \* content of every file
  fs0,         \* the filesystem before the call
  locked,      \* files another process holds open
  tmpDir,      \* the TemporaryFiles directory exists
  temp,        \* content of this save's temp file
  attempts,    \* polls made by the running wait
  interrupts,  \* SIGINT deliveries so far
  intrAt,      \* position at which SIGINT was delivered ("none" if never)
  steps,       \* the steps of _save_to_file executed, in order
  opened,      \* startfile was called on the target
  waits,       \* outcome of the two waits: target, backup
  torn,        \* the target path once held something else than the old or the new complete content
  wb,          \* the workbooks of two saves in a row (format transplant on its own)
  csv,         \* a delimited-text file, the dataset read from it, and what a save and a reload give
  ds           \* a dataset and the datasets derived from it (metadata on its own)

vars == <<call, self, file_path, answers, prompts, caller, workers, pc, err, handler,
          handler0, fs, fs0, locked, tmpDir, temp, attempts, interrupts, intrAt,
          steps, opened, waits, torn, wb, csv, ds>>

\* the state of the studies of the pure parts, which save never touches
pureVars == <<wb, csv, ds>>
inputVars == <<call, self, handler0, fs0, pureVars>>
resolveVars == <<file_path, answers, prompts, workers>>
diskVars == <<fs, tmpDir, temp, torn>>

\* the process that runs _save_to_file
runner == IF call.async_mode THEN "worker" ELSE "caller"

\* ------------------------------------------------------------------ Init
InitFs(present) == [f \in Files |-> IF f \in present THEN Old(f) ELSE Absent]
Groups(S) == {UNION G : G \in SUBSET S}

Init ==
  /\ call \in [file_path : ArgPaths, async_mode : BOOLEAN, retain_format : BOOLEAN,
               auto_open : BOOLEAN, create_backup : BOOLEAN]
  /\ self \in [source_file : SourcePaths, destination_file : DestPaths]
  /\ handler0 \in Handlers0
  /\ handler = [caller |-> handler0, worker |-> DefaultIntHandler]
  /\ \E present \in Groups({DataFiles, BackupFiles, SourceFiles}) : fs0 = InitFs(present)
  /\ fs = fs0
  /\ locked \in Groups({{f \in Targets : Exists(fs0[f])}, {f \in BackupFiles : Exists(fs0[f])}})
  /\ wb = "unused"
  /\ csv = "unused"
  /\ ds = "unused"
  /\ file_path = None
  /\ answers = [yesno |-> "unasked", saveas |-> None]
  /\ prompts = <<>>
  /\ caller = "calling"
  /\ workers = 0
  /\ pc = "start"
  /\ err = "none"
  /\ tmpDir = FALSE
  /\ temp = Absent
  /\ attempts = 0
  /\ interrupts = 0
  /\ intrAt = "none"
  /\ steps = <<>>
  /\ opened = FALSE
  /\ waits = [target |-> "none", backup |-> "none"]
  /\ torn = FALSE


\* variant of ResolvePath: the stored destination wins over the explicit path
ResolvePathDestFirst(arg, dest, src, yes, picked) ==
  IF ~Falsy(dest) THEN dest
  ELSE IF ~Falsy(arg) THEN arg
  ELSE IF ~Falsy(src) THEN (IF yes THEN src ELSE picked)
  ELSE arg

\* ------------------------------------------------------------------ save
\* lines 46-65: the path save settles on (still falsy when none was obtained)
ResolvePath(arg, dest, src, yes, picked) ==
  IF ~Falsy(arg) THEN arg
  ELSE IF ~Falsy(dest) THEN dest
  ELSE IF ~Falsy(src) THEN (IF yes THEN src ELSE picked)
  ELSE arg

\* lines 51 and 60: the dialogs save shows on the way
PromptsShown(arg, dest, src, yes) ==
  IF Falsy(arg) /\ Falsy(dest) /\ ~Falsy(src)
  THEN (IF yes THEN <<"askyesno">> ELSE <<"askyesno", "asksaveasfilename">>)
  ELSE <<>>


\* variant of CallerAfter: the worker's outcome reaches the caller of save
CallerAfterJoined(p) ==
  IF p = "done" THEN "returned"
  ELSE IF p = "raised" THEN "raised"
  ELSE caller

\* the caller's view of _save_to_file ending at position p (synchronous call only)
CallerAfter(p) ==
  IF call.async_mode THEN caller
  ELSE IF p = "done" THEN "returned"
  ELSE IF p = "raised" THEN "raised"
  ELSE caller


\* variant of Save: the caller waits for the worker it started
SaveJoining ==
  /\ pc = "start"
  /\ \E yes \in BOOLEAN, picked \in DialogAnswers :
       LET p == ResolvePath(call.file_path, self.destination_file, self.source_file, yes, picked)
           shown == PromptsShown(call.file_path, self.destination_file, self.source_file, yes)
       IN /\ prompts' = shown
          /\ answers' = [yesno |-> IF Len(shown) = 0 THEN "unasked" ELSE IF yes THEN "yes" ELSE "no",
                         saveas |-> IF Len(shown) = 2 THEN picked ELSE None]
          /\ file_path' = p
          /\ IF Falsy(p)
             THEN /\ pc' = "raised"
                  /\ err' = "NoPath"
                  /\ caller' = "raised"
                  /\ workers' = workers
             ELSE /\ pc' = "setsig"
                  /\ err' = err
                  /\ workers' = IF call.async_mode THEN workers + 1 ELSE workers
                  /\ caller' = caller
  /\ UNCHANGED <<inputVars, diskVars, handler, locked, attempts, interrupts, intrAt,
                 steps, opened, waits>>

\* lines 46-73: resolve the path, then run _save_to_file here or in a worker
Save ==
  /\ pc = "start"
  /\ \E yes \in BOOLEAN, picked \in DialogAnswers :
       LET p == ResolvePath(call.file_path, self.destination_file, self.source_file, yes, picked)
           shown == PromptsShown(call.file_path, self.destination_file, self.source_file, yes)
       IN /\ prompts' = shown
          /\ answers' = [yesno |-> IF Len(shown) = 0 THEN "unasked" ELSE IF yes THEN "yes" ELSE "no",
                         saveas |-> IF Len(shown) = 2 THEN picked ELSE None]
          /\ file_path' = p
          /\ IF Falsy(p)
             THEN /\ pc' = "raised"
                  /\ err' = "NoPath"
                  /\ caller' = "raised"
                  /\ workers' = workers
             ELSE /\ pc' = "setsig"
                  /\ err' = err
                  /\ workers' = IF call.async_mode THEN workers + 1 ELSE workers
                  /\ caller' = IF call.async_mode THEN "returned" ELSE caller
  /\ UNCHANGED <<inputVars, diskVars, handler, locked, attempts, interrupts, intrAt,
                 steps, opened, waits>>

\* ---------------------------------------------------------- _save_to_file
\* an exception raised inside the try block (lines 95-122) runs the finally clause first
RaiseInTry(e) == pc' = "finally" /\ err' = e

\* line 90: signal.signal(signal.SIGINT, ignore_keyboard_interrupt)
SetSignal ==
  /\ pc = "setsig"
  /\ handler' = [handler EXCEPT ![runner] = IgnoreKeyboardInterrupt]
  /\ pc' = "checkext"
  /\ UNCHANGED <<inputVars, resolveVars, diskVars, caller, err, locked, attempts,
                 interrupts, intrAt, steps, opened, waits>>


\* variant of CheckExt: the directory is made before the extension is checked
CheckExtAfterMkdir ==
  /\ pc = "checkext"
  /\ tmpDir' = TRUE
  /\ IF file_path.ext \notin ValidExtensions
     THEN /\ pc' = "raised"
          /\ err' = "BadExt"
          /\ caller' = CallerAfter("raised")
     ELSE /\ pc' = "mkdir"
          /\ err' = err
          /\ caller' = caller
  /\ UNCHANGED <<inputVars, resolveVars, fs, temp, torn, handler, locked, attempts,
                 interrupts, intrAt, steps, opened, waits>>

\* lines 91-93: the extension check, outside the try block
CheckExt ==
  /\ pc = "checkext"
  /\ IF file_path.ext \notin ValidExtensions
     THEN /\ pc' = "raised"
          /\ err' = "BadExt"
          /\ caller' = CallerAfter("raised")
     ELSE /\ pc' = "mkdir"
          /\ err' = err
          /\ caller' = caller
  /\ UNCHANGED <<inputVars, resolveVars, diskVars, handler, locked, attempts,
                 interrupts, intrAt, steps, opened, waits>>

\* lines 96-97: temp_file_dir.mkdir(exist_ok=True)
MakeTempDir ==
  /\ pc = "mkdir"
  /\ tmpDir' = TRUE
  /\ steps' = Append(steps, "mkdir")
  /\ pc' = "mktemp"
  /\ UNCHANGED <<inputVars, resolveVars, fs, temp, torn, caller, err, handler, locked,
                 attempts, interrupts, intrAt, opened, waits>>

\* lines 99-100: NamedTemporaryFile(delete=False, suffix=file_path.suffix, dir=temp_file_dir)
CreateTemp ==
  /\ pc = "mktemp"
  /\ temp' = Torn(Serialized(FormatOf(file_path.ext)))
  /\ steps' = Append(steps, "mktemp")
  /\ pc' = "serialize"
  /\ UNCHANGED <<inputVars, resolveVars, fs, tmpDir, torn, caller, err, handler, locked,
                 attempts, interrupts, intrAt, opened, waits>>


\* variant of Serialize: the dataset is written straight to the target path
SerializeInPlace ==
  /\ pc = "serialize"
  /\ \/ /\ fs' = [fs EXCEPT ![file_path] = Serialized(FormatOf(file_path.ext))]
        /\ temp' = Serialized(FormatOf(file_path.ext))
        /\ steps' = Append(steps, "write")
        /\ pc' = "retain"
        /\ err' = err
     \/ /\ fs' = [fs EXCEPT ![file_path] = Torn(Serialized(FormatOf(file_path.ext)))]
        /\ RaiseInTry("SerializeError")
        /\ UNCHANGED <<temp, steps>>
  /\ UNCHANGED <<inputVars, resolveVars, tmpDir, torn, caller, handler, locked,
                 attempts, interrupts, intrAt, opened, waits>>

\* lines 102-105: to_csv / to_excel into the temp file; the dataset's serialization may fail
Serialize ==
  /\ pc = "serialize"
  /\ \/ /\ temp' = Serialized(FormatOf(file_path.ext))
        /\ steps' = Append(steps, "write")
        /\ pc' = "retain"
        /\ err' = err
     \/ /\ RaiseInTry("SerializeError")
        /\ UNCHANGED <<temp, steps>>
  /\ UNCHANGED <<inputVars, resolveVars, fs, tmpDir, torn, caller, handler, locked,
                 attempts, interrupts, intrAt, opened, waits>>

\* line 108: reference_file := file_path if file_path.exists() else self.source_file
ReferenceFile == IF Exists(fs[file_path]) THEN file_path ELSE self.source_file

\* lines 107-109: the conditions under which _transfer_excel_format is called
TransplantCalled ==
  /\ call.retain_format
  /\ ~Falsy(ReferenceFile)
  /\ ReferenceFile.ext \in SpreadsheetExtensions

\* line 130: load_workbook reads a complete workbook only
Loadable(c) == Exists(c) /\ c.whole /\ c.fmt = "xlsx"

\* lines 142-153: the temp file rewritten as a workbook carrying the reference's formatting
TransferExcelFormat(ref) == [data |-> "dataset", fmt |-> "xlsx", whole |-> TRUE, style |-> "reference"]


\* variant of Retain: the transplant is given the target path instead of the temp file
RetainOntoTarget ==
  /\ pc = "retain"
  /\ IF TransplantCalled
     THEN \/ /\ Loadable(fs[ReferenceFile])
             /\ fs' = [fs EXCEPT ![file_path] = TransferExcelFormat(fs[ReferenceFile])]
             /\ steps' = Append(steps, "transplant")
             /\ pc' = "waittarget"
             /\ err' = err
          \/ /\ RaiseInTry("TransplantError")
             /\ UNCHANGED <<fs, steps>>
     ELSE /\ pc' = "waittarget"
          /\ UNCHANGED <<fs, steps, err>>
  /\ UNCHANGED <<inputVars, resolveVars, temp, tmpDir, torn, caller, handler, locked,
                 attempts, interrupts, intrAt, opened, waits>>

\* lines 107-110: the optional format transplant onto the temp file
Retain ==
  /\ pc = "retain"
  /\ IF TransplantCalled
     THEN \/ /\ Loadable(fs[ReferenceFile])
             /\ temp' = TransferExcelFormat(fs[ReferenceFile])
             /\ steps' = Append(steps, "transplant")
             /\ pc' = "waittarget"
             /\ err' = err
          \/ /\ RaiseInTry("TransplantError")
             /\ UNCHANGED <<temp, steps>>
     ELSE /\ pc' = "waittarget"
          /\ UNCHANGED <<temp, steps, err>>
  /\ UNCHANGED <<inputVars, resolveVars, fs, tmpDir, torn, caller, handler, locked,
                 attempts, interrupts, intrAt, opened, waits>>

\* utilities.wait_for_file_availability: one poll of the bounded wait, n polls made before
WaitForFileAvailability(f, n) ==
  IF f \notin locked THEN "available"
  ELSE IF n + 1 >= MaxAttempts THEN "unavailable"
  ELSE "retry"


\* variant of WaitTarget: the wait only notifies, and the move goes ahead
WaitTargetNotifyOnly ==
  /\ pc = "waittarget"
  /\ IF ~Exists(fs[file_path])
     THEN /\ pc' = "move"
          /\ UNCHANGED <<attempts, waits, err, steps>>
     ELSE LET v == WaitForFileAvailability(file_path, attempts) IN
          /\ steps' = IF attempts = 0 THEN Append(steps, "wait_target") ELSE steps
          /\ err' = err
          /\ CASE v = "available" ->
                    /\ pc' = "move"
                    /\ attempts' = 0
                    /\ waits' = [waits EXCEPT !.target = "available"]
               [] v = "unavailable" ->
                    /\ pc' = "move"
                    /\ attempts' = 0
                    /\ waits' = [waits EXCEPT !.target = "unavailable"]
               [] OTHER ->
                    /\ attempts' = attempts + 1
                    /\ UNCHANGED <<pc, waits>>
  /\ UNCHANGED <<inputVars, resolveVars, diskVars, caller, handler, locked,
                 interrupts, intrAt, opened>>

\* lines 112-113: if file_path.exists(): wait_for_file_availability(file_path)
WaitTarget ==
  /\ pc = "waittarget"
  /\ IF ~Exists(fs[file_path])
     THEN /\ pc' = "move"
          /\ UNCHANGED <<attempts, waits, err, steps>>
     ELSE LET v == WaitForFileAvailability(file_path, attempts) IN
          /\ steps' = IF attempts = 0 THEN Append(steps, "wait_target") ELSE steps
          /\ CASE v = "available" ->
                    /\ pc' = "move"
                    /\ attempts' = 0
                    /\ waits' = [waits EXCEPT !.target = "available"]
                    /\ err' = err
               [] v = "unavailable" ->
                    /\ RaiseInTry("LockTimeout")
                    /\ attempts' = 0
                    /\ waits' = [waits EXCEPT !.target = "unavailable"]
               [] OTHER ->
                    /\ attempts' = attempts + 1
                    /\ UNCHANGED <<pc, waits, err>>
  /\ UNCHANGED <<inputVars, resolveVars, diskVars, caller, handler, locked,
                 interrupts, intrAt, opened>>

\* the target path holds neither its content before the save nor a complete file
TornNow(c) == ~c.whole \/ (Exists(fs0[file_path]) /\ ~Exists(c))

\* line 114, shutil.move: os.rename puts the temp file at the target in one step
MoveRename ==
  /\ pc = "move"
  /\ fs' = [fs EXCEPT ![file_path] = temp]
  /\ temp' = Absent
  /\ torn' = (torn \/ TornNow(temp))
  /\ steps' = Append(steps, "move")
  /\ pc' = "backup"
  /\ UNCHANGED <<inputVars, resolveVars, tmpDir, caller, err, handler, locked,
                 attempts, interrupts, intrAt, opened, waits>>

\* line 114, shutil.move: os.rename raises OSError on an existing target (Windows,
\* the platform of os.startfile), and move falls back to copy2, which opens the
\* target for writing
MoveCopyBegin ==
  /\ pc = "move"
  /\ Exists(fs[file_path])
  /\ fs' = [fs EXCEPT ![file_path] = Torn(temp)]
  /\ torn' = TRUE
  /\ pc' = "copying"
  /\ UNCHANGED <<inputVars, resolveVars, tmpDir, temp, caller, err, handler, locked,
                 attempts, interrupts, intrAt, steps, opened, waits>>

\* line 114, shutil.move: copy2 finishes writing the target
MoveCopyEnd ==
  /\ pc = "copying"
  /\ fs' = [fs EXCEPT ![file_path] = temp]
  /\ pc' = "unlink"
  /\ UNCHANGED <<inputVars, resolveVars, tmpDir, temp, torn, caller, err, handler, locked,
                 attempts, interrupts, intrAt, steps, opened, waits>>


\* variant of MoveUnlink: the fallback copies and leaves the temp file behind
MoveUnlinkKeepsTemp ==
  /\ pc = "unlink"
  /\ steps' = Append(steps, "move")
  /\ pc' = "backup"
  /\ UNCHANGED <<inputVars, resolveVars, diskVars, caller, err, handler, locked,
                 attempts, interrupts, intrAt, opened, waits>>

\* line 114, shutil.move: os.unlink of the temp file ends the fallback
MoveUnlink ==
  /\ pc = "unlink"
  /\ temp' = Absent
  /\ steps' = Append(steps, "move")
  /\ pc' = "backup"
  /\ UNCHANGED <<inputVars, resolveVars, fs, tmpDir, torn, caller, err, handler, locked,
                 attempts, interrupts, intrAt, opened, waits>>

\* line 114: an I/O failure of the move propagates
MoveFail ==
  /\ pc \in {"move", "copying"}
  /\ RaiseInTry("MoveError")
  /\ UNCHANGED <<inputVars, resolveVars, diskVars, caller, handler, locked,
                 attempts, interrupts, intrAt, steps, opened, waits>>

\* lines 116-118: the backup is attempted only if requested and the backup file exists
BackupStep ==
  /\ pc = "backup"
  /\ pc' = IF call.create_backup /\ Exists(fs[BackupPath(file_path)]) THEN "waitbackup" ELSE "open"
  /\ UNCHANGED <<inputVars, resolveVars, diskVars, caller, err, handler, locked,
                 attempts, interrupts, intrAt, steps, opened, waits>>


\* variant of WaitBackup: the wait for the backup raises like the wait for the target
WaitBackupFatal ==
  /\ pc = "waitbackup"
  /\ LET v == WaitForFileAvailability(BackupPath(file_path), attempts) IN
     CASE v = "available" ->
            /\ pc' = "copybackup"
            /\ attempts' = 0
            /\ waits' = [waits EXCEPT !.backup = "available"]
            /\ err' = err
       [] v = "unavailable" ->
            /\ RaiseInTry("LockTimeout")
            /\ attempts' = 0
            /\ waits' = [waits EXCEPT !.backup = "unavailable"]
       [] OTHER ->
            /\ attempts' = attempts + 1
            /\ UNCHANGED <<pc, waits, err>>
  /\ UNCHANGED <<inputVars, resolveVars, diskVars, caller, handler, locked,
                 interrupts, intrAt, steps, opened>>

\* line 118: wait_for_file_availability(backup_file_path, notify_only=True)
WaitBackup ==
  /\ pc = "waitbackup"
  /\ LET v == WaitForFileAvailability(BackupPath(file_path), attempts) IN
     CASE v = "available" ->
            /\ pc' = "copybackup"
            /\ attempts' = 0
            /\ waits' = [waits EXCEPT !.backup = "available"]
       [] v = "unavailable" ->
            /\ pc' = "open"
            /\ attempts' = 0
            /\ waits' = [waits EXCEPT !.backup = "unavailable"]
       [] OTHER ->
            /\ attempts' = attempts + 1
            /\ UNCHANGED <<pc, waits>>
  /\ UNCHANGED <<inputVars, resolveVars, diskVars, caller, err, handler, locked,
                 interrupts, intrAt, steps, opened>>

\* line 119: copy2(file_path, backup_file_path) opens the backup for writing
BackupCopyBegin ==
  /\ pc = "copybackup"
  /\ fs' = [fs EXCEPT ![BackupPath(file_path)] = Torn(fs[file_path])]
  /\ pc' = "copyingbackup"
  /\ UNCHANGED <<inputVars, resolveVars, tmpDir, temp, torn, caller, err, handler, locked,
                 attempts, interrupts, intrAt, steps, opened, waits>>


\* variant of BackupCopyEnd: the backup receives what the target held before the save
BackupCopyEndSnapshot ==
  /\ pc = "copyingbackup"
  /\ \/ /\ fs' = [fs EXCEPT ![BackupPath(file_path)] = fs0[file_path]]
        /\ steps' = Append(steps, "backup")
        /\ pc' = "open"
        /\ err' = err
     \/ /\ RaiseInTry("BackupError")
        /\ UNCHANGED <<fs, steps>>
  /\ UNCHANGED <<inputVars, resolveVars, tmpDir, temp, torn, caller, handler, locked,
                 attempts, interrupts, intrAt, opened, waits>>

\* line 119: copy2 finishes writing the backup, or fails
BackupCopyEnd ==
  /\ pc = "copyingbackup"
  /\ \/ /\ fs' = [fs EXCEPT ![BackupPath(file_path)] = fs[file_path]]
        /\ steps' = Append(steps, "backup")
        /\ pc' = "open"
        /\ err' = err
     \/ /\ RaiseInTry("BackupError")
        /\ UNCHANGED <<fs, steps>>
  /\ UNCHANGED <<inputVars, resolveVars, tmpDir, temp, torn, caller, handler, locked,
                 attempts, interrupts, intrAt, opened, waits>>

\* lines 121-122: if auto_open: startfile(file_path)
AutoOpen ==
  /\ pc = "open"
  /\ IF call.auto_open
     THEN \/ /\ opened' = TRUE
             /\ steps' = Append(steps, "open")
             /\ pc' = "finally"
             /\ err' = err
          \/ /\ RaiseInTry("OpenError")
             /\ UNCHANGED <<opened, steps>>
     ELSE /\ pc' = "finally"
          /\ UNCHANGED <<opened, steps, err>>
  /\ UNCHANGED <<inputVars, resolveVars, diskVars, caller, handler, locked,
                 attempts, interrupts, intrAt, waits>>

\* lines 124-125: finally: signal.signal(signal.SIGINT, signal.default_int_handler)
Finally ==
  /\ pc = "finally"
  /\ handler' = [handler EXCEPT ![runner] = DefaultIntHandler]
  /\ pc' = IF err = "none" THEN "done" ELSE "raised"
  /\ caller' = CallerAfter(IF err = "none" THEN "done" ELSE "raised")
  /\ UNCHANGED <<inputVars, resolveVars, diskVars, err, locked, attempts,
                 interrupts, intrAt, steps, opened, waits>>

\* ----------------------------------------------------------- environment
\* positions inside _save_to_file
InCall == {"setsig", "checkext", "mkdir", "mktemp", "serialize", "retain", "waittarget",
           "move", "copying", "unlink", "backup", "waitbackup", "copybackup",
           "copyingbackup", "open", "finally"}
\* positions inside the try block, where a raised exception runs the finally clause
InTry == InCall \ {"setsig", "checkext", "finally"}

\* what calling a handler as handler(signum, frame) raises: the handler of lines
\* 87-88 takes no parameters, default_int_handler raises KeyboardInterrupt
HandlerCall(h) ==
  IF h = IgnoreKeyboardInterrupt THEN "TypeError"
  ELSE IF h = DefaultIntHandler THEN "KeyboardInterrupt"
  ELSE "none"

\* SIGINT is delivered to the process running _save_to_file
Interrupt ==
  /\ pc \in InCall
  /\ interrupts < MaxInterrupts
  /\ interrupts' = interrupts + 1
  /\ intrAt' = pc
  /\ LET e == HandlerCall(handler[runner]) IN
     IF e = "none"
     THEN UNCHANGED <<pc, err, caller>>
     ELSE /\ err' = e
          /\ pc' = IF pc \in InTry THEN "finally" ELSE "raised"
          /\ caller' = CallerAfter(IF pc \in InTry THEN "finally" ELSE "raised")
  /\ UNCHANGED <<inputVars, resolveVars, diskVars, handler, locked, attempts,
                 steps, opened, waits>>

\* the process holding the awaited file open closes it
Release ==
  /\ \/ pc = "waittarget" /\ locked' = locked \ {file_path}
     \/ pc = "waitbackup" /\ locked' = locked \ {BackupPath(file_path)}
  /\ locked' # locked
  /\ UNCHANGED <<inputVars, resolveVars, diskVars, caller, pc, err, handler, attempts,
                 interrupts, intrAt, steps, opened, waits>>

Next ==
  \/ Save
  \/ SetSignal
  \/ CheckExt
  \/ MakeTempDir
  \/ CreateTemp
  \/ Serialize
  \/ Retain
  \/ WaitTarget
  \/ MoveRename
  \/ MoveCopyBegin
  \/ MoveCopyEnd
  \/ MoveUnlink
  \/ MoveFail
  \/ BackupStep
  \/ WaitBackup
  \/ BackupCopyBegin
  \/ BackupCopyEnd
  \/ AutoOpen
  \/ Finally
  \/ Interrupt
  \/ Release

Spec == Init /\ [][Next]_vars

\* ------------------------------------------------------ a killed worker
\* the worker process of an async save is killed or crashes, at any position
Kill ==
  /\ call.async_mode
  /\ pc \in InCall
  /\ pc' = "killed"
  /\ UNCHANGED <<inputVars, resolveVars, diskVars, caller, err, handler, locked, attempts,
                 interrupts, intrAt, steps, opened, waits>>

NextKill == Next \/ Kill

SpecKill == Init /\ [][NextKill]_vars

\* ================================================================ claims
Did(step) == \E i \in 1..Len(steps) : steps[i] = step
Ended == pc \in {"done", "raised"}
Resolved == ~Falsy(file_path)
\* the positions from the creation of the temp file to the end of the replace
Critical == {"serialize", "retain", "waittarget", "move", "copying", "unlink"}

\* C1: a synchronous save that ends successfully never showed, at the target
\* path, anything but the complete content from before the save (or no file,
\* if there was none) or the complete new content.
C1_AtomicReplace ==
  (pc = "done" /\ ~call.async_mode) => ~torn

\* C2: a save with create_backup=True whose replace succeeded and whose backup
\* path was not found locked leaves a backup file next to the target when it
\* returns, whether or not one existed before.
C2_BackupExists ==
  (pc = "done" /\ call.create_backup /\ waits.backup # "unavailable")
    => Exists(fs[BackupPath(file_path)])

\* C3 as stated: a backup written over an existing target's save holds the
\* content the target held before the save.
C3_BackupIsPreSave ==
  (Did("backup") /\ Exists(fs0[file_path]))
    => fs[BackupPath(file_path)] = fs0[file_path]

\* C3 amended: a backup written by a save holds the content this save just
\* wrote to the target: the complete serialization of the dataset.
C3_BackupIsSaved ==
  Did("backup")
    => /\ fs[BackupPath(file_path)] = fs[file_path]
       /\ fs[BackupPath(file_path)].data = "dataset"
       /\ fs[BackupPath(file_path)].whole

C3_Witness ==
  /\ pc = "done"
  /\ Did("backup")
  /\ Exists(fs0[file_path])
  /\ fs[BackupPath(file_path)] # fs0[BackupPath(file_path)]

\* C4: when the wait for an existing backup file reports it unavailable, the
\* backup step raises nothing and leaves the backup file as it was, the target
\* holds the new content, the save goes on to the auto-open step, and a save
\* no signal interrupts ends without error unless startfile itself fails.
C4_LockedBackupSkipped ==
  waits.backup = "unavailable"
    => /\ pc \in {"open", "finally", "done", "raised"}
       /\ err \notin {"LockTimeout", "BackupError"}
       /\ pc = "open" => err = "none"
       /\ fs[BackupPath(file_path)] = fs0[BackupPath(file_path)]
       /\ fs[file_path].data = "dataset" /\ fs[file_path].whole
       /\ (intrAt = "none" /\ pc # "open")
            => /\ err \in {"none", "OpenError"}
               /\ call.auto_open => (opened \/ err = "OpenError")
       /\ (pc = "done" /\ call.auto_open) => opened

C4_Witness ==
  /\ waits.backup = "unavailable"
  /\ pc = "done"
  /\ call.auto_open
  /\ opened
  /\ BackupPath(file_path) \in locked

\* C5: a resolved path whose extension is neither .csv nor .xlsx makes
\* _save_to_file fail with the unsupported-extension error before the
\* TemporaryFiles directory or a temp file exists, with every file unchanged.
C5_BadExtNoEffect ==
  (Resolved /\ file_path.ext \notin {".csv", ".xlsx"})
    => /\ pc \in {"setsig", "checkext", "raised"}
       /\ ~tmpDir
       /\ temp = Absent
       /\ fs = fs0
       /\ steps = <<>>
       /\ ~opened
       /\ (pc = "raised" /\ intrAt = "none") => err = "BadExt"
       /\ pc # "raised" => err = "none"

C5_Witness ==
  /\ pc = "raised"
  /\ err = "BadExt"
  /\ file_path = DataTxt
  /\ Exists(fs0[DataTxt])

\* C6: on every exit path of _save_to_file the SIGINT handler of the process
\* that ran it is the handler that was installed before the call.
C6_HandlerRestored ==
  Ended => handler[runner] = (IF call.async_mode THEN DefaultIntHandler ELSE handler0)

\* C7: a SIGINT delivered between the creation of the temp file and the end of
\* the replace raises no exception in the saving thread.
C7_InterruptIgnored ==
  intrAt \in Critical => err \notin {"TypeError", "KeyboardInterrupt"}

\* C8: when the wait for an existing target reports it unavailable, the save
\* fails with an error and never replaces, backs up or opens; and a wait for
\* the target is performed only if the target existed.
C8_TargetWait ==
  /\ waits.target = "unavailable"
       => /\ pc \in {"finally", "raised"}
          /\ err # "none"
          /\ (err = "LockTimeout" \/ intrAt = "finally")
          /\ ~Did("move") /\ ~Did("backup") /\ ~Did("open")
          /\ ~opened
          /\ fs = fs0
          /\ (pc = "raised" /\ ~call.async_mode) => caller = "raised"
  /\ Did("wait_target") => Exists(fs0[file_path])
  /\ (Did("move") /\ ~Exists(fs0[file_path])) => waits.target = "none"

C8_Witness ==
  /\ waits.target = "unavailable"
  /\ pc = "raised"
  /\ err = "LockTimeout"
  /\ file_path \in locked

\* C9 as stated: a caller error (no resolvable path, unsupported extension) is
\* raised to the caller of save, with async_mode=False and async_mode=True alike.
C9_CallerErrorsRaised ==
  (pc = "raised" /\ err \in {"NoPath", "BadExt"}) => caller = "raised"

\* C9 amended: the no-path error is raised to the caller of save in both modes,
\* before anything is touched; the unsupported-extension error is raised to the
\* caller of save with async_mode=False, while with async_mode=True it is raised
\* in the worker and save has returned normally.
C9_CallerErrorsBySite ==
  /\ err = "NoPath"
       => /\ pc = "raised" /\ caller = "raised"
          /\ workers = 0 /\ fs = fs0 /\ ~tmpDir /\ temp = Absent /\ steps = <<>>
  /\ (err = "BadExt" /\ ~call.async_mode)
       => /\ pc = "raised" /\ caller = "raised"
          /\ workers = 0 /\ fs = fs0 /\ ~tmpDir /\ temp = Absent /\ steps = <<>>
  /\ (err = "BadExt" /\ call.async_mode)
       => /\ pc = "raised" /\ caller = "returned"
          /\ workers = 1 /\ fs = fs0 /\ ~tmpDir /\ temp = Absent /\ steps = <<>>

C9_Witness ==
  /\ err = "BadExt"
  /\ call.async_mode
  /\ caller = "returned"
  /\ pc = "raised"

\* C10: save settles on the explicit file_path if given, else on the
\* destination_file if set, else (source_file set) on the source_file after a
\* yes and on the save-as answer after a no; otherwise it raises the no-path
\* error with no worker started and no file touched. No prompt is shown when
\* an explicit path or a destination_file is available.
C10_Resolution ==
  pc # "start" =>
    LET a == call.file_path
        d == self.destination_file
        s == self.source_file
        given(p) == p # None /\ p # Empty
        failed == /\ pc = "raised" /\ err = "NoPath" /\ caller = "raised"
                  /\ workers = 0 /\ fs = fs0 /\ ~tmpDir /\ temp = Absent
                  /\ steps = <<>> /\ ~opened
    IN /\ given(a) => (file_path = a /\ prompts = <<>>)
       /\ (~given(a) /\ given(d)) => (file_path = d /\ prompts = <<>>)
       /\ (~given(a) /\ ~given(d) /\ given(s))
            => /\ answers.yesno \in {"yes", "no"}
               /\ answers.yesno = "yes" => (file_path = s /\ prompts = <<"askyesno">>)
               /\ answers.yesno = "no"
                    => /\ prompts = <<"askyesno", "asksaveasfilename">>
                       /\ given(answers.saveas) => file_path = answers.saveas
                       /\ ~given(answers.saveas) => failed
       /\ (~given(a) /\ ~given(d) /\ ~given(s)) => (failed /\ prompts = <<>>)
       /\ given(file_path) => err # "NoPath"

C10_Witness ==
  /\ call.file_path = None
  /\ self.destination_file = None
  /\ self.source_file = BookXlsx
  /\ answers.yesno = "no"
  /\ answers.saveas = DataCsv
  /\ file_path = DataCsv
  /\ pc = "done"

\* the steps of one save in the order of the code
StepOrder == <<"mkdir", "mktemp", "write", "transplant", "wait_target", "move", "backup", "open">>
StepRank(step) == CHOOSE i \in 1..Len(StepOrder) : StepOrder[i] = step

\* C11: within one save the steps happen only in the order make directory,
\* write temp file, transplant, wait for the target, replace, backup, open;
\* the backup copy and the auto-open never precede a completed replace, and
\* the transplant leaves the target path alone.
C11_StepOrder ==
  /\ \A i, j \in 1..Len(steps) : i < j => StepRank(steps[i]) < StepRank(steps[j])
  /\ (Did("backup") \/ Did("open") \/ opened) => Did("move")
  /\ (Resolved /\ fs[BackupPath(file_path)] # fs0[BackupPath(file_path)]) => Did("move")
  /\ (Did("transplant") /\ pc \in {"waittarget", "move"}) => fs = fs0
  /\ Did("move") => (Did("mkdir") /\ Did("mktemp") /\ Did("write"))

C11_Witness ==
  /\ pc = "done"
  /\ steps = StepOrder

\* C12: after a successful save this save's temp file is gone from
\* TemporaryFiles; a temp file remains only after a save that failed between
\* the creation of the temp file and the end of the replace.
C12_TempConsumed ==
  /\ pc = "done" => temp = Absent
  /\ Did("move") => temp = Absent
  /\ (Ended /\ Exists(temp)) => (pc = "raised" /\ Did("mktemp") /\ ~Did("move"))

C12_Witness ==
  /\ pc = "done"
  /\ Did("mktemp")
  /\ Did("move")
  /\ torn
  /\ temp = Absent

\* C13: whenever the worker of an async save is killed, the target path holds
\* its complete content from before the save or the complete new content.
C13_KilledWorkerLeavesWhole ==
  pc = "killed"
    => \/ fs[file_path] = fs0[file_path]
       \/ (fs[file_path].whole /\ fs[file_path].data = "dataset")

\* C14: with async_mode=True and a resolved path, save has started exactly one
\* worker and has returned to the caller, whatever the worker does or fails to
\* do afterwards; nothing of the worker's outcome reaches the caller.
C14_FireAndForget ==
  /\ (call.async_mode /\ Resolved)
       => /\ workers = 1
          /\ caller = "returned"
          /\ pc # "start"
  /\ (~call.async_mode \/ ~Resolved) => workers = 0

C14_Witness ==
  /\ call.async_mode
  /\ caller = "returned"
  /\ pc = "raised"
  /\ err = "LockTimeout"
  /\ file_path \in locked

\* C15: with retain_format=True the reference is the target if it exists, else
\* the source_file, else none, and the transplanter is invoked exactly when a
\* reference was chosen, that file exists and has a spreadsheet extension;
\* otherwise it is not invoked and the save does not fail on the transplant.
C15_TransplantGate ==
  (Resolved /\ Did("write") /\ pc # "retain" /\ intrAt = "none")
    => LET ref == IF Exists(fs0[file_path]) THEN file_path ELSE self.source_file
           due == /\ call.retain_format
                  /\ ref # None /\ ref # Empty
                  /\ Exists(fs0[ref])
                  /\ ref.ext \in {".xlsx", ".xls"}
           invoked == Did("transplant") \/ err = "TransplantError"
       IN /\ invoked <=> due
          /\ ~due => err # "TransplantError"

C20_FailureBeforeReplace ==
  err \in {"SerializeError", "TransplantError", "LockTimeout"}
    => /\ fs = fs0
       /\ ~torn
       /\ ~opened
       /\ ~Did("move")
       /\ tmpDir
       /\ pc \in {"finally", "raised"}

C20_Witness ==
  /\ pc = "raised"
  /\ err = "TransplantError"
  /\ Exists(temp)
  /\ Exists(fs0[file_path])
  /\ Exists(fs0[BackupPath(file_path)])

\* ====================================================== the pure parts
\* In the studies below no save is running: the variables of save rest.
mainVars == <<call, self, handler0, fs0, file_path, answers, prompts, workers, fs, tmpDir,
              temp, torn, caller, pc, err, handler, locked, attempts, interrupts, intrAt,
              steps, opened, waits>>

MainIdle ==
  /\ call = [file_path |-> None, async_mode |-> FALSE, retain_format |-> FALSE,
             auto_open |-> FALSE, create_backup |-> FALSE]
  /\ self = [source_file |-> None, destination_file |-> None]
  /\ handler0 = DefaultIntHandler
  /\ handler = [caller |-> handler0, worker |-> DefaultIntHandler]
  /\ fs0 = InitFs({})
  /\ fs = fs0
  /\ locked = {}
  /\ file_path = None
  /\ answers = [yesno |-> "unasked", saveas |-> None]
  /\ prompts = <<>>
  /\ caller = "calling"
  /\ workers = 0
  /\ pc = "idle"
  /\ err = "none"
  /\ tmpDir = FALSE
  /\ temp = Absent
  /\ attempts = 0
  /\ interrupts = 0
  /\ intrAt = "none"
  /\ steps = <<>>
  /\ opened = FALSE
  /\ waits = [target |-> "none", backup |-> "none"]
  /\ torn = FALSE

SeqUpTo(S, n) == UNION {[1..k -> S] : k \in 0..n}

\* ------------------------------------------- metadata of derived datasets
\* number of derivations in a row
MaxDerive == 2

\* _metadata = ["source_file", "destination_file"]
Metadata == {"source_file", "destination_file"}

\* lines 22-33: AdvancePandas(dataframe, source_file, destination_file)
AdvancePandasInit(source_file, destination_file) ==
  [cls |-> "AdvancePandas", source_file |-> source_file, destination_file |-> destination_file]

\* lines 155-157: pandas builds a derived dataset as self._constructor(data),
\* which is AdvancePandas(data) with both paths at their default None
Constructor == AdvancePandasInit(None, None)

\* the operations that derive a dataset from one
Methods == {"copy", "filter", "assign", "merge", "concat"}

\* pandas' __finalize__(other, method) copies the names of _metadata from other
\* when other is a dataset; merge and concat pass their operation object instead
Finalize(result, other, method) ==
  IF method \in {"merge", "concat"}
  THEN result
  ELSE [f \in DOMAIN result |-> IF f \in Metadata THEN other[f] ELSE result[f]]

\* the dataset an operation derives from d
Derived(d, method) == Finalize(Constructor, d, method)

InitDerive ==
  /\ MainIdle
  /\ wb = "unused"
  /\ csv = "unused"
  /\ \E src \in Targets \cup {None}, dst \in Targets \cup {None} :
       ds = [orig |-> AdvancePandasInit(src, dst), last |-> AdvancePandasInit(src, dst),
             op |-> "none", depth |-> 0]

\* one more dataset is derived from the latest one
Derive ==
  /\ ds.depth < MaxDerive
  /\ \E method \in Methods :
       ds' = [ds EXCEPT !.last = Derived(ds.last, method), !.op = method, !.depth = ds.depth + 1]
  /\ UNCHANGED <<mainVars, wb, csv>>

NextDerive == Derive

SpecDerive == InitDerive /\ [][NextDerive]_vars

\* ------------------------------------------------- delimited-text round trip
\* the size of the files read
MaxCsvCols == 2
MaxCsvRows == 2

\* a field of a line: empty, a quoted empty string, digits, text
QuotedEmpty == "\"\""
CsvCells == {"", QuotedEmpty, "007", "x"}
NaTexts == {"", QuotedEmpty}
IntTexts == {"0", "1", "2", "3", "7", "007"}
FloatTexts == {"7.0"}

Nan == [t |-> "nan", v |-> ""]
\* the integer a text parses to, printed
IntOf(text) == [t |-> "int", v |-> IF text = "007" THEN "7" ELSE text]
\* the float a text parses to, printed
FloatOf(text) ==
  [t |-> "float", v |-> IF text \in {"7", "007", "7.0"} THEN "7.0" ELSE text \o ".0"]
StrOf(text) == [t |-> "str", v |-> text]

\* a line with one empty unquoted field is a blank line, which read_csv skips
BlankLine(line) == Len(line) = 1 /\ line[1] = ""

UnnamedNames == <<"Unnamed: 0", "Unnamed: 1", "Unnamed: 2", "Unnamed: 3">>
DupSuffixes == <<".1", ".2", ".3">>

\* read_csv names a column after its header field: an empty one is "Unnamed: i",
\* a repeated one gets a numbered suffix
ColumnName(header, i) ==
  LET earlier == Cardinality({j \in 1..(i - 1) : header[j] = header[i]}) IN
  IF header[i] \in NaTexts THEN UnnamedNames[i]
  ELSE IF earlier > 0 THEN header[i] \o DupSuffixes[earlier]
  ELSE header[i]

\* read_csv infers one type per column: int64, float64 (numbers with gaps or
\* decimals) or object (text, gaps as NaN)
ColumnCell(column, text) ==
  LET filled == {column[k] : k \in {k \in 1..Len(column) : column[k] \notin NaTexts}}
  IN IF text \in NaTexts THEN Nan
     ELSE IF filled \subseteq IntTexts /\ Len(column) = Cardinality({k \in 1..Len(column) : column[k] \notin NaTexts})
          THEN IntOf(text)
     ELSE IF filled \subseteq IntTexts \cup FloatTexts THEN FloatOf(text)
     ELSE StrOf(text)

\* line 178: pd.read_csv(source_file); the first line that is not blank is the header
ReadCsv(lines) ==
  LET kept == SelectSeq(lines, LAMBDA l : ~BlankLine(l))
      header == Head(kept)
      body == Tail(kept)
      column(j) == [i \in 1..Len(body) |-> body[i][j]]
  IN [columns |-> [j \in 1..Len(header) |-> ColumnName(header, j)],
      rows |-> [i \in 1..Len(body) |->
                  [j \in 1..Len(header) |-> ColumnCell(column(j), body[i][j])]]]

\* read_csv raises EmptyDataError on a file of blank lines
Readable(lines) == \E i \in 1..Len(lines) : ~BlankLine(lines[i])

\* the field to_csv writes for a value; a lone empty field is written quoted
FieldOf(value, alone) == IF value.t = "nan" THEN (IF alone THEN QuotedEmpty ELSE "") ELSE value.v

IndexTexts == <<"0", "1", "2", "3">>

\* DataFrame.to_csv(path, index=index): the header line, then one line per row
ToCsv(df, index) ==
  LET lead(x) == IF index THEN <<x>> ELSE <<>>
      alone == Len(df.columns) = 1 /\ ~index
  IN <<lead("") \o df.columns>> \o
     [i \in 1..Len(df.rows) |->
        lead(IndexTexts[i]) \o [j \in 1..Len(df.columns) |-> FieldOf(df.rows[i][j], alone)]]

\* variant of SavedCsv: the row index is written too
SavedCsvWithIndex(df) == ToCsv(df, TRUE)

\* line 103: self.to_csv(temp_file_path, index=False)
SavedCsv(df) == ToCsv(df, FALSE)

InitCsv ==
  /\ MainIdle
  /\ wb = "unused"
  /\ ds = "unused"
  /\ \E n \in 1..MaxCsvCols :
       \E lines \in SeqUpTo([1..n -> CsvCells], MaxCsvRows + 1) :
         /\ Len(lines) > 0
         /\ csv = [stage |-> "file", file |-> lines, df1 |-> <<>>, saved |-> <<>>, df2 |-> <<>>]

\* AdvanceExcelReader(source_file) on a .csv path
LoadCsv ==
  /\ csv.stage = "file"
  /\ csv' = IF Readable(csv.file)
            THEN [csv EXCEPT !.stage = "loaded", !.df1 = ReadCsv(csv.file)]
            ELSE [csv EXCEPT !.stage = "unreadable"]
  /\ UNCHANGED <<mainVars, wb, ds>>

\* save of the unchanged dataset to a .csv path
SaveCsv ==
  /\ csv.stage = "loaded"
  /\ csv' = [csv EXCEPT !.stage = "saved", !.saved = SavedCsv(csv.df1)]
  /\ UNCHANGED <<mainVars, wb, ds>>

\* AdvanceExcelReader on the saved path
ReloadCsv ==
  /\ csv.stage = "saved"
  /\ csv' = [csv EXCEPT !.stage = "reloaded", !.df2 = ReadCsv(csv.saved)]
  /\ UNCHANGED <<mainVars, wb, ds>>

NextCsv == LoadCsv \/ SaveCsv \/ ReloadCsv

SpecCsv == InitCsv /\ [][NextCsv]_vars

\* C17: a delimited-text file loaded, saved unchanged to a .csv path and loaded
\* again gives a dataset equal to the first: same columns, same cell values,
\* same row order, and no row-index column added.
C17_CsvRoundTrip ==
  csv.stage = "reloaded"
    => /\ csv.df2 = csv.df1
       /\ csv.df2.columns = csv.df1.columns
       /\ Len(csv.df2.rows) = Len(csv.df1.rows)
       /\ \A i \in 1..Len(csv.df1.rows) : csv.df2.rows[i] = csv.df1.rows[i]

\* a file whose fields the loader converts: digits with leading zeros, a gap
C17_Witness ==
  /\ csv.stage = "reloaded"
  /\ csv.file = << <<"x", "x">>, <<"007", "">>, <<"007", "x">> >>
  /\ csv.df1.columns = <<"x", "x.1">>
  /\ csv.df1.rows[1] = << [t |-> "int", v |-> "7"], [t |-> "nan", v |-> ""] >>
  /\ csv.saved # csv.file

\* C18: every dataset derived from an AdvancePandas dataset (copy, filter,
\* adding a column, merge) is an AdvancePandas with the original's source_file
\* and destination_file.
C18_MetadataSurvives ==
  ds.depth > 0
    => /\ ds.last.cls = "AdvancePandas"
       /\ ds.last.source_file = ds.orig.source_file
       /\ ds.last.destination_file = ds.orig.destination_file

\* -------------------------------------------------- format retention twice
\* the number of columns of the reference workbook and of the dataset
MaxRefCols == 2
MaxDataCols == 2

\* the width openpyxl reports for a column whose width was never set
DefaultWidth == 13
ColumnWidths == {DefaultWidth, 20}
Alignments == {"general", "right"}
SheetTitles == {"Sheet1", "Report"}
\* the alignment to_excel gives the header cells: centered by pandas' header
\* style, or none where the installed pandas writes headers without a style
HeaderAlignments == {"center", "general"}

\* a sheet: its title and, per column, the width, the alignment of the header
\* cell (row 1) and the alignment of the cells below it
ColumnFormats == [width : ColumnWidths, head : Alignments, body : Alignments]
Workbooks == [title : SheetTitles, cols : SeqUpTo(ColumnFormats, MaxRefCols)]

\* lines 105 and 143: to_excel(..., sheet_name=title, index=False) of a dataset of k columns
ToExcel(k, title, headAlign) ==
  [title |-> title,
   cols |-> [c \in 1..k |-> [width |-> DefaultWidth, head |-> headAlign, body |-> "general"]]]

\* lines 134-140: width and header-cell alignment of every column of the reference
ColumnDetails(ref) ==
  [c \in 1..Len(ref.cols) |-> [width |-> ref.cols[c].width, alignment |-> ref.cols[c].head]]

\* lines 128-153: the dataset rewritten under the reference's sheet title, each
\* captured column given its width and, in every cell, the captured alignment
TransplantedWorkbook(ref, k, headAlign) ==
  LET details == ColumnDetails(ref)
      fresh == ToExcel(k, ref.title, headAlign)
      n == Len(details)
      last == IF n > k THEN n ELSE k
  IN [title |-> ref.title,
      cols |-> [c \in 1..last |->
                  IF c <= n
                  THEN [width |-> details[c].width, head |-> details[c].alignment,
                        body |-> details[c].alignment]
                  ELSE fresh.cols[c]]]

InitFormat ==
  /\ MainIdle
  /\ csv = "unused"
  /\ ds = "unused"
  /\ \E hasRef \in BOOLEAN, ref \in Workbooks, k \in 1..MaxDataCols, h \in HeaderAlignments :
       /\ ~hasRef => ref = [title |-> "Sheet1", cols |-> <<>>]
       /\ wb = [stage |-> "start", hasRef |-> hasRef, ref |-> ref, ncols |-> k, header |-> h,
                out1 |-> ref, out2 |-> ref]

\* lines 102-110: the first save with retain_format=True: a transplant from the
\* reference (the existing target, else the source file) if there is one
FirstSave ==
  /\ wb.stage = "start"
  /\ wb' = [wb EXCEPT !.stage = "first",
                      !.out1 = IF wb.hasRef
                               THEN TransplantedWorkbook(wb.ref, wb.ncols, wb.header)
                               ELSE ToExcel(wb.ncols, "Sheet1", wb.header)]
  /\ UNCHANGED <<mainVars, csv, ds>>

\* lines 102-110: the second save, whose reference is the target the first one wrote
SecondSave ==
  /\ wb.stage = "first"
  /\ wb' = [wb EXCEPT !.stage = "second",
                      !.out2 = TransplantedWorkbook(wb.out1, wb.ncols, wb.header)]
  /\ UNCHANGED <<mainVars, csv, ds>>

NextFormat == FirstSave \/ SecondSave

SpecFormat == InitFormat /\ [][NextFormat]_vars

\* C16: two saves in a row of the same dataset to the same spreadsheet path
\* with retain_format=True, the second taking the first one's output as its
\* reference, give the same column widths, alignments and sheet title.
C16_RetentionIdempotent ==
  wb.stage = "second"
    => /\ wb.out2.title = wb.out1.title
       /\ Len(wb.out2.cols) = Len(wb.out1.cols)
       /\ \A c \in 1..Len(wb.out1.cols) :
            /\ wb.out2.cols[c].width = wb.out1.cols[c].width
            /\ wb.out2.cols[c].head = wb.out1.cols[c].head
            /\ wb.out2.cols[c].body = wb.out1.cols[c].body
====
